---- MODULE Spec2Model ----
(***************************************************************************)
(* Model of StochasticDiffusion: DiffusionModel (diffusion.js) and         *)
(* Particle / ParticleSystem / VisualizationApp (particle.js).             *)
(*                                                                         *)
(* Numbers are fixed point integers:                                       *)
(*   positions, standard deviations      hundredths         (0.7  -> 70)   *)
(*   times and time steps                units of 0.02      (1.0  -> 50)   *)
(*   stochasticity                       tenths             (0.5  -> 5)    *)
(*   densities, weights, sin, cos, exp   ten-thousandths    (1.0  -> 10000)*)
(*   uniform draws of Math.random()      thousandths        (0.5  -> 500)  *)
(***************************************************************************)
EXTENDS Integers, Sequences, FiniteSets, TLC

VARIABLES particles, lastOp, calls, probe, app

vars == <<particles, lastOp, calls, probe, app>>

(***************************************************************************)
(* Bounds of the model.                                                    *)
(***************************************************************************)
\* ParticleSystem.maxParticles (1000 in particle.js:58), scaled down
maxParticles == 2
\* the trajectory retention length (100 in particle.js:42), scaled down
MaxTrajectory == 3

\* 1.0, the end of a particle's time, in units of the reference dt 0.02
TimeOne == 50

\* steps handed to ParticleSystem.update under arbitrary calls: 0 and 0.6
DtSet == {0, 30}
\* values of the stochasticity slider: 0 and 0.5
StochSet == {0, 5}
\* counts handed to spawnParticles
SpawnCounts == 0..(maxParticles + 1)
\* representative uniform draws: u1 (radius) and u2 (angle) of Box-Muller
U1Set == {607}
U2Set == {0, 500}
\* representative draw for the hue of generateColor
HueDraws == {500}

(***************************************************************************)
(* Arithmetic helpers.                                                     *)
(***************************************************************************)
Abs(a) == IF a < 0 THEN -a ELSE a

\* Math.sign
Sign(a) == IF a < 0 THEN -1 ELSE IF a > 0 THEN 1 ELSE 0

Min(a, b) == IF a <= b THEN a ELSE b

\* division of fixed point numbers, rounding toward zero
Div(a, b) == IF a < 0 THEN -((-a) \div b) ELSE a \div b

\* Math.sqrt on integers: the integer square root, for n < 20000 * 20000
Sqrt(n) == CHOOSE r \in 0..20000 : r * r <= n /\ (r + 1) * (r + 1) > n

\* sqrt(k / 50) for k = 0..50, in ten-thousandths
SqrtTab ==
    <<0, 1414, 2000, 2449, 2828, 3162, 3464, 3742, 4000, 4243, 4472, 4690,
      4899, 5099, 5292, 5477, 5657, 5831, 6000, 6164, 6325, 6481, 6633,
      6782, 6928, 7071, 7211, 7348, 7483, 7616, 7746, 7874, 8000, 8124,
      8246, 8367, 8485, 8602, 8718, 8832, 8944, 9055, 9165, 9274, 9381,
      9487, 9592, 9695, 9798, 9899, 10000>>

\* Math.sqrt(dt) of a time step dt = 0..50 (0 to 1.0), in ten-thousandths
SqrtTime(dt) == SqrtTab[dt + 1]

\* sin(pi * k / 50) for k = 0..25, in ten-thousandths
SinTab ==
    <<0, 628, 1253, 1874, 2487, 3090, 3681, 4258, 4818, 5358, 5878, 6374,
      6845, 7290, 7705, 8090, 8443, 8763, 9048, 9298, 9511, 9686, 9823,
      9921, 9980, 10000>>

\* Math.sin(pi * k / 50), k >= 0
SinPi(k) ==
    LET m == k % 100
        h == m % 50
        q == IF h <= 25 THEN SinTab[h + 1] ELSE SinTab[50 - h + 1]
    IN  IF m < 50 THEN q ELSE -q

\* Math.cos(pi * k / 50), k >= 0
CosPi(k) == SinPi(k + 25)

\* exp(-k), exp(-k/10), exp(-k/100) for k = 0..9, in ten-thousandths
ExpTab1 == <<10000, 3679, 1353, 498, 183, 67, 25, 9, 3, 1>>
ExpTab2 == <<10000, 9048, 8187, 7408, 6703, 6065, 5488, 4966, 4493, 4066>>
ExpTab3 == <<10000, 9900, 9802, 9704, 9608, 9512, 9418, 9324, 9231, 9139>>

\* Math.exp(-y / 100) for y >= 0 in hundredths; positive, as Math.exp is
ExpNeg(y) ==
    IF y >= 1000 THEN 1
    ELSE LET a == ExpTab1[(y \div 100) + 1]
             b == ExpTab2[((y \div 10) % 10) + 1]
             c == ExpTab3[(y % 10) + 1]
             e == (((a * b) \div 10000) * c) \div 10000
         IN  IF e < 1 THEN 1 ELSE e

\* Math.sqrt(-2 * Math.log(u1)) for the representative draws, ten-thousandths
SqrtNeg2Log(u1) ==
    CASE u1 = 135 -> 20012
      [] u1 = 607 -> 9992
      [] u1 = 882 -> 5011
      [] OTHER -> 11774

(***************************************************************************)
(* DiffusionModel (diffusion.js)                                           *)
(***************************************************************************)
noiseMean == 0
noiseStd == 70
cleanMode1 == -100
cleanMode2 == 100
cleanStd == 30
\* modeWeight 0.5, in hundredths
modeWeight == 50

gaussian(x, mean, std) ==
    LET variance == std * std
        coefficient == 100000000 \div Sqrt(62832 * variance)
        ratio == Div((x - mean) * 100, std)
        exponent == (ratio * ratio) \div 200
    IN  (coefficient * ExpNeg(exponent)) \div 10000

getCleanDistribution(x) ==
    LET g1 == gaussian(x, cleanMode1, cleanStd)
        g2 == gaussian(x, cleanMode2, cleanStd)
    IN  (modeWeight * g1 + (100 - modeWeight) * g2) \div 100

\* getNoisyDistribution with the two weights exchanged
getNoisyDistributionSwapped(x, t) ==
    LET noiseDist == gaussian(x, noiseMean, noiseStd)
        cleanDist == getCleanDistribution(x)
    IN  (t * noiseDist + (TimeOne - t) * cleanDist) \div TimeOne

getNoisyDistribution(x, t) ==
    LET noiseDist == gaussian(x, noiseMean, noiseStd)
        cleanDist == getCleanDistribution(x)
    IN  ((TimeOne - t) * noiseDist + t * cleanDist) \div TimeOne

computeVectorField(x, t) ==
    LET distToMode1 == Abs(x - cleanMode1)
        distToMode2 == Abs(x - cleanMode2)
        weight1 == (ExpNeg(2 * distToMode1) * (10000 + Div(3 * SinPi(t), 10))) \div 10000
        weight2 == (ExpNeg(2 * distToMode2) * (10000 + Div(3 * CosPi(t), 10))) \div 10000
        totalWeight == weight1 + weight2
        targetX == Div(weight1 * cleanMode1 + weight2 * cleanMode2, totalWeight)
        direction == targetX - x
        timeScale == 10000 - 40 * t
        curvature == Div(Div(3 * SinPi(2 * t), 10) * (TimeOne - t), TimeOne)
        centerComponent ==
            - Div(Div(x * 4 * ExpNeg(3 * t), 10000) * (TimeOne - t), 10 * TimeOne)
    IN  Div(direction * timeScale, 10000)
          + Div(Div(curvature * Sign(x) * (TimeOne - t), TimeOne), 100)
          + centerComponent

flowMatchingStep(x, t, dt) ==
    LET velocity == computeVectorField(x, t)
    IN  x + Div(velocity * dt, TimeOne)

\* u1, u2: the two Math.random() draws of the Box-Muller transform
sampleGaussian(mean, std, u1, u2) ==
    LET z0 == Div(SqrtNeg2Log(u1) * CosPi(u2 \div 10), 10000)
    IN  mean + Div(std * z0, 10000)

ddpmStep(x, t, dt, stochasticity, u1, u2) ==
    LET deterministic == flowMatchingStep(x, t, dt)
        noiseScale == (SqrtTime(dt) * (TimeOne - t) * stochasticity) \div 50000
        noise == sampleGaussian(0, noiseScale, u1, u2)
    IN  deterministic + noise

sampleNoisy(u1, u2) == sampleGaussian(noiseMean, noiseStd, u1, u2)

\* evolveParticle without the test of stochasticity
evolveParticleAlwaysNoisy(x, t, dt, stochasticity, u1, u2) ==
    [x |-> ddpmStep(x, t, dt, stochasticity, u1, u2), draws |-> 2]

\* the value returned and the number of Math.random() draws consumed
evolveParticle(x, t, dt, stochasticity, u1, u2) ==
    IF stochasticity = 0
    THEN [x |-> flowMatchingStep(x, t, dt), draws |-> 0]
    ELSE [x |-> ddpmStep(x, t, dt, stochasticity, u1, u2), draws |-> 2]

(***************************************************************************)
(* Particle (particle.js)                                                  *)
(***************************************************************************)
\* hsl(hue, saturation%, lightness%) from three draws
generateColor(r1, r2, r3) ==
    <<(r1 * 360) \div 1000, 60 + (r2 * 40) \div 1000, 50 + (r3 * 30) \div 1000>>

\* a constructor that does not record the initial point
ParticleNoTrajectory(x, t, color) ==
    [x |-> x, t |-> t, trajectory |-> <<>>, active |-> TRUE, color |-> color]

\* new Particle(x, t)
Particle(x, t, color) ==
    [x |-> x, t |-> t, trajectory |-> <<[x |-> x, t |-> t]>>,
     active |-> TRUE, color |-> color]

\* Particle.update that deactivates as soon as the time reaches 1.0
updateEager(p, dt, stochasticity, u1, u2) ==
    IF ~p.active \/ p.t >= TimeOne
    THEN [p EXCEPT !.active = FALSE]
    ELSE LET newX == evolveParticle(p.x, p.t, dt, stochasticity, u1, u2).x
             newT == Min(p.t + dt, TimeOne)
             pushed == Append(p.trajectory, [x |-> newX, t |-> newT])
         IN  [p EXCEPT !.x = newX, !.t = newT, !.active = newT < TimeOne,
                       !.trajectory = IF Len(pushed) > MaxTrajectory
                                      THEN Tail(pushed) ELSE pushed]

\* Particle.update that shifts one point too late
updateLateShift(p, dt, stochasticity, u1, u2) ==
    IF ~p.active \/ p.t >= TimeOne
    THEN [p EXCEPT !.active = FALSE]
    ELSE LET newX == evolveParticle(p.x, p.t, dt, stochasticity, u1, u2).x
             newT == Min(p.t + dt, TimeOne)
             pushed == Append(p.trajectory, [x |-> newX, t |-> newT])
         IN  [p EXCEPT !.x = newX, !.t = newT,
                       !.trajectory = IF Len(pushed) > MaxTrajectory + 1
                                      THEN Tail(pushed) ELSE pushed]

\* Particle.update whose guard tests the active flag alone
updateIgnoresTime(p, dt, stochasticity, u1, u2) ==
    IF ~p.active
    THEN [p EXCEPT !.active = FALSE]
    ELSE LET newX == evolveParticle(p.x, p.t, dt, stochasticity, u1, u2).x
             newT == Min(p.t + dt, TimeOne)
             pushed == Append(p.trajectory, [x |-> newX, t |-> newT])
         IN  [p EXCEPT !.x = newX, !.t = newT,
                       !.trajectory = IF Len(pushed) > MaxTrajectory
                                      THEN Tail(pushed) ELSE pushed]

\* Particle.update without the clamp of the time
updateNoClamp(p, dt, stochasticity, u1, u2) ==
    IF ~p.active \/ p.t >= TimeOne
    THEN [p EXCEPT !.active = FALSE]
    ELSE LET newX == evolveParticle(p.x, p.t, dt, stochasticity, u1, u2).x
             newT == p.t + dt
             pushed == Append(p.trajectory, [x |-> newX, t |-> newT])
         IN  [p EXCEPT !.x = newX, !.t = newT,
                       !.trajectory = IF Len(pushed) > MaxTrajectory
                                      THEN Tail(pushed) ELSE pushed]

\* Particle.update whose guard is t > 1.0
updateStrictGuard(p, dt, stochasticity, u1, u2) ==
    IF ~p.active \/ p.t > TimeOne
    THEN [p EXCEPT !.active = FALSE]
    ELSE LET newX == evolveParticle(p.x, p.t, dt, stochasticity, u1, u2).x
             newT == Min(p.t + dt, TimeOne)
             pushed == Append(p.trajectory, [x |-> newX, t |-> newT])
         IN  [p EXCEPT !.x = newX, !.t = newT,
                       !.trajectory = IF Len(pushed) > MaxTrajectory
                                      THEN Tail(pushed) ELSE pushed]

\* Particle.update
\* an update that records the state it started from instead of the new one
updateRecordsOld(p, dt, stochasticity, u1, u2) ==
    IF ~p.active \/ p.t >= TimeOne
    THEN [p EXCEPT !.active = FALSE]
    ELSE LET newX == evolveParticle(p.x, p.t, dt, stochasticity, u1, u2).x
             newT == Min(p.t + dt, TimeOne)
             pushed == Append(p.trajectory, [x |-> p.x, t |-> p.t])
         IN  [p EXCEPT !.x = newX, !.t = newT,
                       !.trajectory = IF Len(pushed) > MaxTrajectory
                                      THEN Tail(pushed) ELSE pushed]

update(p, dt, stochasticity, u1, u2) ==
    IF ~p.active \/ p.t >= TimeOne
    THEN [p EXCEPT !.active = FALSE]
    ELSE LET newX == evolveParticle(p.x, p.t, dt, stochasticity, u1, u2).x
             newT == Min(p.t + dt, TimeOne)
             pushed == Append(p.trajectory, [x |-> newX, t |-> newT])
         IN  [p EXCEPT !.x = newX, !.t = newT,
                       !.trajectory = IF Len(pushed) > MaxTrajectory
                                      THEN Tail(pushed) ELSE pushed]

isComplete(p) == p.t >= TimeOne

(***************************************************************************)
(* ParticleSystem (particle.js)                                            *)
(***************************************************************************)
\* a findIndex that takes the oldest particle, completed or not
FindCompletedOldest(ps) == IF Len(ps) > 0 THEN 1 ELSE 0

\* a findLastIndex: the last completed particle instead of the first
FindCompletedLast(ps) ==
    IF \E i \in 1..Len(ps) : isComplete(ps[i])
    THEN CHOOSE i \in 1..Len(ps) :
            isComplete(ps[i]) /\ \A j \in (i + 1)..Len(ps) : ~isComplete(ps[j])
    ELSE 0

\* Array.prototype.findIndex(p => p.isComplete()): 0 stands for -1
FindCompleted(ps) ==
    IF \E i \in 1..Len(ps) : isComplete(ps[i])
    THEN CHOOSE i \in 1..Len(ps) :
            isComplete(ps[i]) /\ \A j \in 1..(i - 1) : ~isComplete(ps[j])
    ELSE 0

\* Array.prototype.splice(i, 1)
Splice(ps, i) == SubSeq(ps, 1, i - 1) \o SubSeq(ps, i + 1, Len(ps))

\* the draws one iteration of spawnParticles consumes
SpawnDraws == [u1 : U1Set, u2 : U2Set, hue : HueDraws]

\* iterations i..count of the loop of spawnParticles; rnd[i] feeds iteration i
RECURSIVE SpawnLoop(_, _, _, _)
SpawnLoop(ps, i, count, rnd) ==
    IF i > count THEN ps
    ELSE LET full == Len(ps) >= maxParticles
             completed == FindCompleted(ps)
         IN  IF full /\ completed = 0 THEN ps
             ELSE LET room == IF full THEN Splice(ps, completed) ELSE ps
                      x == sampleNoisy(rnd[i].u1, rnd[i].u2)
                      p == Particle(x, 0, generateColor(rnd[i].hue, 500, 500))
                  IN  SpawnLoop(Append(room, p), i + 1, count, rnd)

\* spawnParticles whose capacity test is > instead of >=
RECURSIVE SpawnLoopOverfill(_, _, _, _)
SpawnLoopOverfill(ps, i, count, rnd) ==
    IF i > count THEN ps
    ELSE LET full == Len(ps) > maxParticles
             completed == FindCompleted(ps)
         IN  IF full /\ completed = 0 THEN ps
             ELSE LET room == IF full THEN Splice(ps, completed) ELSE ps
                      x == sampleNoisy(rnd[i].u1, rnd[i].u2)
                      p == Particle(x, 0, generateColor(rnd[i].hue, 500, 500))
                  IN  SpawnLoopOverfill(Append(room, p), i + 1, count, rnd)

spawnParticlesOverfill(ps, count, rnd) == SpawnLoopOverfill(ps, 1, count, rnd)

spawnParticles(ps, count, rnd) == SpawnLoop(ps, 1, count, rnd)

\* ParticleSystem.update: rnd[i] feeds the update of particle i
updateAll(ps, dt, stochasticity, rnd) ==
    [i \in 1..Len(ps) |-> update(ps[i], dt, stochasticity, rnd[i].u1, rnd[i].u2)]

getActiveParticles(ps) == SelectSeq(ps, LAMBDA p : p.active)

clear(ps) == <<>>

\* a cleanup that removes every completed particle
cleanupCompleted(ps) == SelectSeq(ps, LAMBDA p : ~isComplete(p))

cleanup(ps) == SelectSeq(ps, LAMBDA p : ~isComplete(p) \/ Len(p.trajectory) > 0)

(***************************************************************************)
(* The population under arbitrary calls: Spec                              *)
(***************************************************************************)
NoProbe == [kind |-> "none"]
\* no VisualizationApp has been constructed
NoApp == [started |-> FALSE]

Init ==
    /\ particles = <<>>
    /\ lastOp = [op |-> "new"]
    /\ calls = 0
    /\ probe = NoProbe
    /\ app = NoApp

Spawn ==
    \E count \in SpawnCounts :
      \E rnd \in [1..count -> SpawnDraws] :
        /\ particles' = spawnParticles(particles, count, rnd)
        /\ lastOp' = [op |-> "spawn", count |-> count, sizeBefore |-> Len(particles),
                      hadCompleted |-> FindCompleted(particles) # 0]
        /\ UNCHANGED <<calls, probe, app>>

Advance ==
    \E dt \in DtSet, stochasticity \in StochSet :
      \E rnd \in [1..Len(particles) -> [u1 : U1Set, u2 : U2Set]] :
        /\ particles' = updateAll(particles, dt, stochasticity, rnd)
        /\ lastOp' = [op |-> "advance", dt |-> dt, stochasticity |-> stochasticity]
        /\ UNCHANGED <<calls, probe, app>>

Cleanup ==
    /\ particles' = cleanup(particles)
    /\ lastOp' = [op |-> "cleanup"]
    /\ UNCHANGED <<calls, probe, app>>

Clear ==
    /\ particles' = clear(particles)
    /\ lastOp' = [op |-> "clear"]
    /\ UNCHANGED <<calls, probe, app>>

Next == Spawn \/ Advance \/ Cleanup \/ Clear

Spec == Init /\ [][Next]_vars

(***************************************************************************)
(* Repeated advance with a fixed step: SpecAdvance                         *)
(***************************************************************************)
\* the simulation's reference step dt = 0.02 and its double (particle.js:140, 522)
SmallDts == {1, 2}
\* the fixed (dt, stochasticity) of a run: small steps without noise, large with
Runs == (SmallDts \X {0}) \cup ((DtSet \ {0}) \X StochSet)
\* the count of advance calls saturates here
MaxCalls == 52

InitAdvance ==
    /\ \E count \in 1..maxParticles :
         \E rnd \in [1..count -> SpawnDraws] :
           particles = spawnParticles(<<>>, count, rnd)
    /\ \E r \in Runs :
         probe = [kind |-> "run", dt |-> r[1], stochasticity |-> r[2]]
    /\ lastOp = [op |-> "spawn"]
    /\ calls = 0
    /\ app = NoApp

AdvanceFixed ==
    \E rnd \in [1..Len(particles) -> [u1 : U1Set, u2 : U2Set]] :
      /\ particles' = updateAll(particles, probe.dt, probe.stochasticity, rnd)
      /\ calls' = IF calls < MaxCalls THEN calls + 1 ELSE calls
      /\ lastOp' = [op |-> "advance"]
      /\ UNCHANGED <<probe, app>>

NextAdvance == AdvanceFixed

\* the driver calls advance on every animation frame
SpecAdvance == InitAdvance /\ [][NextAdvance]_vars /\ WF_vars(AdvanceFixed)

(***************************************************************************)
(* The pure functions of DiffusionModel on sampled inputs: SpecModel       *)
(***************************************************************************)
ProbeXs == {-200, -150, -100, -70, 0, 70, 100, 150, 200}
ProbeTs == {0, 10, 25, 40}
ProbeDts == {0, 1, 25}
ProbeStochs == {0, 1, 5, 10}

InitModel ==
    /\ particles = <<>>
    /\ lastOp = [op |-> "new"]
    /\ calls = 0
    /\ app = NoApp
    /\ \/ \E x \in ProbeXs, t \in ProbeTs, dt \in ProbeDts, s \in ProbeStochs :
            probe = [kind |-> "evolve", x |-> x, t |-> t, dt |-> dt,
                     stochasticity |-> s, outs |-> <<>>, draws |-> <<>>]
       \/ \E x \in ProbeXs, t \in ProbeTs \cup {TimeOne} :
            probe = [kind |-> "density", x |-> x, t |-> t, dt |-> 0,
                     stochasticity |-> 0, outs |-> <<>>, draws |-> <<>>]

\* one call of evolveParticle on the probe's inputs; at most two calls
Evolve ==
    /\ probe.kind = "evolve"
    /\ Len(probe.outs) < 2
    /\ \E u1 \in U1Set, u2 \in U2Set :
         LET r == evolveParticle(probe.x, probe.t, probe.dt, probe.stochasticity, u1, u2)
         IN  probe' = [probe EXCEPT !.outs = Append(@, r.x),
                                    !.draws = Append(@, r.draws)]
    /\ UNCHANGED <<particles, lastOp, calls, app>>

\* one call of getNoisyDistribution on the probe's inputs
Density ==
    /\ probe.kind = "density"
    /\ probe.outs = <<>>
    /\ probe' = [probe EXCEPT !.outs = <<getNoisyDistribution(probe.x, probe.t)>>]
    /\ UNCHANGED <<particles, lastOp, calls, app>>

NextModel == Evolve \/ Density

SpecModel == InitModel /\ [][NextModel]_vars

(***************************************************************************)
(* VisualizationApp (particle.js): the animation driver: SpecApp           *)
(*                                                                         *)
(* app.now is performance.now() in milliseconds.  app.pending counts the   *)
(* requestAnimationFrame callbacks registered for the next display frame,  *)
(* app.firing those of the current display frame that have not run yet.    *)
(***************************************************************************)
\* this.dt = 0.02, in time units
appDt == 1
\* the frame length the step is scaled by, deltaTime / 16, in milliseconds
FrameMs == 16
\* the cap of frameScale
MaxFrameScale == 2
\* the milliseconds of one second in spawnInterval = 1000 / particlesPerSecond
SecondMs == 1000

\* performance.now() when the constructor runs
StartTimes == {0, 16}
\* milliseconds between two display frames: a 60 Hz frame and a slow one
FrameGaps == {16, 48}
\* the clock stops here
MaxNow == 112
\* values of the particle count slider
PpsSet == {10, 25}
\* draws of Math.random() for the cleanup gate: below and above 0.1
GateDraws == {50, 500}
\* the angle draw of Box-Muller under the driver: one representative
AppU2Set == {0}
\* a resume click is not taken with this many callbacks registered
MaxPending == 2

\* the draws one call of VisualizationApp.update consumes
AppDraws == [spawn : [u1 : U1Set, u2 : AppU2Set, hue : HueDraws],
             advance : [1..maxParticles -> [u1 : U1Set, u2 : AppU2Set]],
             gate : GateDraws]

\* the state the constructor leaves before it calls animate()
NewApp(t0) ==
    [started |-> FALSE, isPaused |-> FALSE,
     lastSpawnTime |-> t0, lastFrameTime |-> t0,
     stochasticity |-> 5, particlesPerSecond |-> 10,
     now |-> t0, pending |-> 0, firing |-> 0]

\* a step without the cap of frameScale
stepDtUncapped(deltaTime) == Div(appDt * deltaTime, FrameMs)

\* dt = this.dt * Math.min(deltaTime / 16, 2.0)
stepDt(deltaTime) ==
    Div(appDt * Min(deltaTime, MaxFrameScale * FrameMs), FrameMs)

\* timeSinceLastSpawn >= 1000 / particlesPerSecond
spawnDue(a) == (a.now - a.lastSpawnTime) * a.particlesPerSecond >= SecondMs

\* one entry of the log of calls a tick makes on the particle system
Call(name, arg, ps) == [call |-> name, arg |-> arg, size |-> Len(ps)]

\* the end of update: if (Math.random() < 0.1) cleanup(); with the calls made
appCleanup(log, advanced, gate, lastSpawn) ==
    [particles |-> IF gate THEN cleanup(advanced) ELSE advanced,
     lastSpawnTime |-> lastSpawn,
     log |-> IF gate THEN Append(log, Call("cleanup", 0, advanced)) ELSE log]

\* the middle of update: particleSystem.update(model, dt, stochasticity) on
\* the population the spawn branch left, then the cleanup gate
appAdvance(a, log, spawned, step, rnd, lastSpawn) ==
    appCleanup(Append(log, Call("advance", step, spawned)),
               updateAll(spawned, step, a.stochasticity, rnd.advance),
               rnd.gate < 100, lastSpawn)

\* an update that spawns on every tick, due or not
appUpdateAlwaysSpawns(a, ps, deltaTime, rnd) ==
    IF a.isPaused
    THEN [particles |-> ps, lastSpawnTime |-> a.lastSpawnTime, log |-> <<>>]
    ELSE appAdvance(a, <<Call("spawn", 1, ps)>>,
                    spawnParticles(ps, 1, <<rnd.spawn>>),
                    stepDt(deltaTime), rnd, a.now)

\* VisualizationApp.update(deltaTime): the population and lastSpawnTime it
\* leaves, and the calls it made on the particle system, each with its
\* argument and the size of the population it was made on
appUpdate(a, ps, deltaTime, rnd) ==
    IF a.isPaused
    THEN [particles |-> ps, lastSpawnTime |-> a.lastSpawnTime, log |-> <<>>]
    ELSE IF spawnDue(a)
         THEN appAdvance(a, <<Call("spawn", 1, ps)>>,
                         spawnParticles(ps, 1, <<rnd.spawn>>),
                         stepDt(deltaTime), rnd, a.now)
         ELSE appAdvance(a, <<>>, ps, stepDt(deltaTime), rnd, a.lastSpawnTime)

\* the end of animate: what update(deltaTime) left, render() (which only
\* reads) and requestAnimationFrame(() => this.animate())
animateFrame(framed, deltaTime, u) ==
    [app |-> [framed EXCEPT !.lastSpawnTime = u.lastSpawnTime,
                            !.pending = @ + 1],
     particles |-> u.particles,
     tick |-> [paused |-> FALSE, deltaTime |-> deltaTime, log |-> u.log]]

\* the body of animate once deltaTime is taken and lastFrameTime is set
animateUpdate(framed, ps, deltaTime, rnd) ==
    animateFrame(framed, deltaTime, appUpdate(framed, ps, deltaTime, rnd))

\* VisualizationApp.animate(): the app and the population it leaves and what
\* the tick did
animate(a, ps, rnd) ==
    IF a.isPaused
    THEN [app |-> a, particles |-> ps,
          tick |-> [paused |-> TRUE, deltaTime |-> 0, log |-> <<>>]]
    ELSE animateUpdate([a EXCEPT !.lastFrameTime = a.now], ps,
                       a.now - (IF a.lastFrameTime = 0 THEN a.now
                                ELSE a.lastFrameTime),
                       rnd)

\* the record of a tick in lastOp
Tick(via, r) ==
    [op |-> "animate", via |-> via, paused |-> r.tick.paused,
     deltaTime |-> r.tick.deltaTime, log |-> r.tick.log]

InitApp ==
    /\ particles = <<>>
    /\ lastOp = [op |-> "new"]
    /\ calls = 0
    /\ probe = NoProbe
    /\ \E t0 \in StartTimes : app = NewApp(t0)

\* this.animate() at the end of the constructor
Start ==
    /\ ~app.started
    /\ \E rnd \in AppDraws :
         \E r \in {animate([app EXCEPT !.started = TRUE], particles, rnd)} :
             /\ app' = r.app
             /\ particles' = r.particles
             /\ lastOp' = Tick("constructor", r)
    /\ UNCHANGED <<calls, probe>>

\* the browser starts a display frame: the registered callbacks become due
Vsync ==
    /\ app.started
    /\ app.firing = 0
    /\ \E gap \in FrameGaps :
         /\ app.now + gap <= MaxNow
         /\ app' = [app EXCEPT !.now = @ + gap, !.firing = app.pending,
                                !.pending = 0]
    /\ lastOp' = [op |-> "vsync"]
    /\ UNCHANGED <<particles, calls, probe>>

\* a callback registered by requestAnimationFrame runs: () => this.animate()
Frame ==
    /\ app.firing > 0
    /\ \E rnd \in AppDraws :
         \E r \in {animate([app EXCEPT !.firing = @ - 1], particles, rnd)} :
             /\ app' = r.app
             /\ particles' = r.particles
             /\ lastOp' = Tick("frame", r)
    /\ UNCHANGED <<calls, probe>>

\* the click handler of the pause button; events run between display frames
PauseClick ==
    /\ app.started
    /\ app.firing = 0
    /\ app.isPaused => app.pending < MaxPending
    /\ IF ~app.isPaused
       THEN /\ app' = [app EXCEPT !.isPaused = TRUE]
            /\ lastOp' = [op |-> "pause"]
            /\ UNCHANGED particles
       ELSE \E rnd \in AppDraws :
              \E r \in {animate([app EXCEPT !.isPaused = FALSE], particles, rnd)} :
                /\ app' = r.app
                /\ particles' = r.particles
                /\ lastOp' = Tick("resume", r)
    /\ UNCHANGED <<calls, probe>>

\* the click handler of the reset button
ResetClick ==
    /\ app.started
    /\ app.firing = 0
    /\ particles' = clear(particles)
    /\ app' = [app EXCEPT !.lastSpawnTime = app.now]
    /\ lastOp' = [op |-> "reset"]
    /\ UNCHANGED <<calls, probe>>

\* the input handler of the stochasticity slider
StochasticityInput ==
    /\ app.started
    /\ app.firing = 0
    /\ \E s \in StochSet : app' = [app EXCEPT !.stochasticity = s]
    /\ lastOp' = [op |-> "stochasticity"]
    /\ UNCHANGED <<particles, calls, probe>>

\* the input handler of the particle count slider
ParticleCountInput ==
    /\ app.started
    /\ app.firing = 0
    /\ \E n \in PpsSet : app' = [app EXCEPT !.particlesPerSecond = n]
    /\ lastOp' = [op |-> "particleCount"]
    /\ UNCHANGED <<particles, calls, probe>>

NextApp ==
    \/ Start
    \/ Vsync
    \/ Frame
    \/ PauseClick
    \/ ResetClick
    \/ StochasticityInput
    \/ ParticleCountInput

SpecApp == InitApp /\ [][NextApp]_vars

(***************************************************************************)
(* Properties                                                              *)
(***************************************************************************)
\* the step just taken is a call of ParticleSystem.update / spawnParticles
AdvanceStep == lastOp'.op = "advance"
SpawnStep == lastOp'.op = "spawn"

Indices == 1..Len(particles)
NoneCompleted == \A i \in Indices : ~isComplete(particles[i])
SampledPositions == {sampleNoisy(u1, u2) : u1 \in U1Set, u2 \in U2Set}

\* C1: after any sequence of spawn, advance, cleanup and clear calls from the
\* empty population the number of particles never exceeds maxParticles.
C1_SizeWithinCapacity == Len(particles) <= maxParticles

\* a spawn of more particles than the capacity has filled the population
C1_FilledToCapacity ==
    /\ lastOp.op = "spawn"
    /\ lastOp.count > maxParticles
    /\ Len(particles) = maxParticles

\* C2, as claimed: when an advance call returns, every particle with t = 1.0 is
\* inactive, so no active particle has t >= 1.0.
C2_InactiveInTheSameCall ==
    lastOp.op = "advance" =>
        /\ \A i \in Indices : particles[i].t = TimeOne => ~particles[i].active
        /\ \A i \in 1..Len(getActiveParticles(particles)) :
              getActiveParticles(particles)[i].t < TimeOne

\* C2, amended: an advance call leaves a particle active exactly when it was
\* active with t < 1.0 before the call: a particle whose time reaches 1.0 in
\* the call is still active when it returns and becomes inactive in the next
\* call; an active particle never has t > 1.0.
C2_InactiveInTheNextCall ==
    /\ [](\A i \in Indices : particles[i].active => particles[i].t <= TimeOne)
    /\ [][AdvanceStep =>
            /\ Len(particles') = Len(particles)
            /\ \A i \in Indices :
                 particles'[i].active = (particles[i].active /\ particles[i].t < TimeOne)]_vars

\* after an advance one particle at t = 1.0 is still active, another inactive
C2_ActiveAtTheEnd ==
    /\ lastOp.op = "advance"
    /\ \E i, j \in Indices :
         /\ particles[i].t = TimeOne /\ particles[i].active
         /\ particles[j].t = TimeOne /\ ~particles[j].active

\* C3: every trajectory holds at most MaxTrajectory points; an append to a full
\* trajectory drops exactly the oldest point and keeps the order of the rest.
C3_TrajectoryBounded ==
    /\ [](\A i \in Indices : Len(particles[i].trajectory) <= MaxTrajectory)
    /\ [][AdvanceStep =>
            \A i \in Indices :
              LET old == particles[i].trajectory
                  new == particles'[i].trajectory
              IN  (particles[i].active /\ particles[i].t < TimeOne) =>
                    IF Len(old) = MaxTrajectory
                    THEN /\ Len(new) = MaxTrajectory
                         /\ SubSeq(new, 1, MaxTrajectory - 1) = Tail(old)
                         /\ new[MaxTrajectory] = [x |-> particles'[i].x, t |-> particles'[i].t]
                    ELSE new = Append(old, [x |-> particles'[i].x, t |-> particles'[i].t])]_vars

\* a full trajectory whose initial point (t = 0) has been dropped from the front
C3_OldestDropped ==
    /\ lastOp.op = "advance"
    /\ \E i \in Indices :
         /\ Len(particles[i].trajectory) = MaxTrajectory
         /\ particles[i].trajectory[1].t > 0

\* C4: spawn(count) on an empty population with count <= maxParticles gives
\* exactly count particles, all active, each with t = 0 and a trajectory of
\* the one point (its sampled position, 0).
C4_SpawnOnEmpty ==
    [][(SpawnStep /\ particles = <<>> /\ lastOp'.count <= maxParticles) =>
         /\ Len(particles') = lastOp'.count
         /\ \A i \in 1..Len(particles') :
              /\ particles'[i].active
              /\ particles'[i].t = 0
              /\ particles'[i].x \in SampledPositions
              /\ particles'[i].trajectory = <<[x |-> particles'[i].x, t |-> 0]>>]_vars

\* spawn(maxParticles) on the empty population has run
C4_SpawnedOnEmpty ==
    /\ lastOp.op = "spawn"
    /\ lastOp.sizeBefore = 0
    /\ lastOp.count = maxParticles
    /\ Len(particles) = maxParticles
    /\ \A i \in Indices : particles[i].trajectory = <<[x |-> particles[i].x, t |-> 0]>>

\* C5: with no completed particle, spawn(count) at capacity changes nothing,
\* and below capacity it keeps the existing particles in place and leaves
\* min(oldSize + count, maxParticles) particles.
C5_SpawnWithoutCompleted ==
    [][(SpawnStep /\ NoneCompleted) =>
         IF Len(particles) >= maxParticles
         THEN particles' = particles
         ELSE /\ Len(particles') = Min(Len(particles) + lastOp'.count, maxParticles)
              /\ SubSeq(particles', 1, Len(particles)) = particles]_vars

\* spawn(count >= 1) has run at capacity with no completed particle
C5_SpawnedAtCapacity ==
    /\ lastOp.op = "spawn"
    /\ lastOp.count >= 1
    /\ lastOp.sizeBefore = maxParticles
    /\ ~lastOp.hadCompleted
    /\ Len(particles) = maxParticles

\* C6, as claimed: advance changes nothing of a particle that is inactive or
\* has t >= 1.0.
C6_CompletedUntouched ==
    [][AdvanceStep =>
         \A i \in Indices :
           (~particles[i].active \/ particles[i].t >= TimeOne) =>
              particles'[i] = particles[i]]_vars

\* C6, amended: advance changes neither position, time, trajectory nor color of
\* a particle that is inactive or has t >= 1.0; it sets its active flag to
\* false, which changes it when the particle was still active at t >= 1.0.
C6_CompletedOnlyDeactivated ==
    [][AdvanceStep =>
         \A i \in Indices :
           (~particles[i].active \/ particles[i].t >= TimeOne) =>
              particles'[i] = [particles[i] EXCEPT !.active = FALSE]]_vars

\* an advance has deactivated a completed particle
C6_Deactivated ==
    /\ lastOp.op = "advance"
    /\ \E i \in Indices : ~particles[i].active /\ particles[i].t >= TimeOne

\* C7: one advance with step dt sets the time of every active particle with
\* t < 1.0 to min(t + dt, 1.0); every time lies in [0, 1] and no advance
\* decreases it.
C7_TimeClamped ==
    /\ [](\A i \in Indices : particles[i].t >= 0 /\ particles[i].t <= TimeOne)
    /\ [][AdvanceStep =>
            \A i \in Indices :
              /\ (particles[i].active /\ particles[i].t < TimeOne) =>
                    particles'[i].t = Min(particles[i].t + lastOp'.dt, TimeOne)
              /\ particles'[i].t >= particles[i].t]_vars

\* an advance whose t + dt passed 1.0 has left the particle at exactly 1.0
C7_Clamped ==
    /\ lastOp.op = "advance"
    /\ \E i \in Indices :
         LET tr == particles[i].trajectory
         IN  /\ Len(tr) >= 2
             /\ tr[Len(tr) - 1].t < TimeOne
             /\ tr[Len(tr) - 1].t + lastOp.dt > TimeOne
             /\ particles[i].t = TimeOne

\* C8: under repeated advance with a fixed dt > 0, a fresh particle advanced
\* with dt = 0.02 has t = 1.0 after 50 calls and not before; every particle
\* eventually becomes inactive, and an inactive particle stays as it is.
C8_RunsToCompletion ==
    /\ [](probe.dt = 1 => \A i \in Indices : particles[i].t = Min(calls, TimeOne))
    /\ <>(\A i \in Indices : ~particles[i].active)
    /\ [][\A i \in Indices :
            ~particles[i].active => particles'[i] = particles[i]]_vars

\* 50 calls with dt = 0.02 have brought the particles to t = 1.0
C8_FiftyCalls ==
    /\ probe.dt = 1
    /\ calls = TimeOne
    /\ Len(particles) >= 1
    /\ \A i \in Indices : particles[i].t = TimeOne /\ particles[i].active

\* C9: evolveParticle returns the deterministic step and consumes no random
\* draw exactly when stochasticity = 0, and otherwise the stochastic step of
\* two draws; two calls with stochasticity = 0 on the same inputs agree.
C9_Dispatch ==
    probe.kind = "evolve" =>
      /\ \A k \in 1..Len(probe.outs) :
           IF probe.stochasticity = 0
           THEN /\ probe.draws[k] = 0
                /\ probe.outs[k] = flowMatchingStep(probe.x, probe.t, probe.dt)
           ELSE /\ probe.draws[k] = 2
                /\ \E u1 \in U1Set, u2 \in U2Set :
                     probe.outs[k] = ddpmStep(probe.x, probe.t, probe.dt,
                                              probe.stochasticity, u1, u2)
      /\ (probe.stochasticity = 0 /\ Len(probe.outs) = 2) =>
            probe.outs[1] = probe.outs[2]

\* two calls with stochasticity = 0 have returned a moved position
C9_TwoDeterministicCalls ==
    /\ probe.kind = "evolve"
    /\ probe.stochasticity = 0
    /\ Len(probe.outs) = 2
    /\ probe.outs[1] # probe.x

\* C10: getNoisyDistribution(x, 0) is the noise Gaussian at x,
\* getNoisyDistribution(x, 1) is getCleanDistribution(x), and for every t the
\* result is (1 - t) * noise(x) + t * clean(x).
C10_Blend ==
    (probe.kind = "density" /\ probe.outs # <<>>) =>
      LET noise == gaussian(probe.x, noiseMean, noiseStd)
          clean == getCleanDistribution(probe.x)
      IN  /\ probe.t = 0 => probe.outs[1] = noise
          /\ probe.t = TimeOne => probe.outs[1] = clean
          /\ TimeOne * probe.outs[1] <= (TimeOne - probe.t) * noise + probe.t * clean
          /\ TimeOne * (probe.outs[1] + 1) > (TimeOne - probe.t) * noise + probe.t * clean

\* the density at t = 1 has been taken where clean and noise differ
C10_CleanAtTheEnd ==
    /\ probe.kind = "density"
    /\ probe.t = TimeOne
    /\ probe.outs = <<getCleanDistribution(probe.x)>>
    /\ probe.outs[1] # gaussian(probe.x, noiseMean, noiseStd)

CompletedIndices == {i \in Indices : particles[i].t >= TimeOne}

\* the completed particles a spawn of count particles at capacity evicts: the
\* first Min(count, number completed) of them in insertion order
Evicted(count) ==
    {i \in CompletedIndices :
        Cardinality({j \in CompletedIndices : j < i}) < count}

\* the index of the m-th particle that is not evicted
Survivor(count, m) ==
    CHOOSE i \in Indices \ Evicted(count) :
        Cardinality({j \in Indices \ Evicted(count) : j < i}) = m - 1

C16_TrajectoryTracksState ==
    /\ [](\A i \in Indices :
            LET tr == particles[i].trajectory
            IN  /\ Len(tr) > 0
                /\ tr[Len(tr)] = [x |-> particles[i].x, t |-> particles[i].t]
                /\ \A k \in 1..(Len(tr) - 1) : tr[k].t <= tr[k + 1].t)
    /\ [][(AdvanceStep /\ lastOp'.dt > 0) =>
            \A i \in Indices :
              LET new == particles'[i].trajectory
              IN  new # particles[i].trajectory =>
                    /\ Len(new) >= 2
                    /\ new[Len(new) - 1].t = particles[i].t
                    /\ new[Len(new)].t > new[Len(new) - 1].t]_vars

\* an advance with dt > 0 has appended a point to a trajectory of several
\* points with strictly increasing times
C16_PointAppended ==
    /\ lastOp.op = "advance"
    /\ lastOp.dt > 0
    /\ \E i \in Indices :
         LET tr == particles[i].trajectory
         IN  /\ Len(tr) = MaxTrajectory
             /\ \A k \in 1..(Len(tr) - 1) : tr[k].t < tr[k + 1].t

\* the step just taken is a call of VisualizationApp.animate
TickStep == lastOp'.op = "animate"

\* the names of the calls in a tick's log, in order
CallNames(log) == [k \in 1..Len(log) |-> log[k].call]

\* C12: a tick that is not paused calls, in this order, spawn at most once
\* (for one particle, adding at most one, and only when the time since the
\* last spawn is at least 1000/particlesPerSecond ms), advance exactly once
\* on the whole population, and cleanup at most once; a tick that runs while
\* paused makes no call and leaves the population unchanged.
C12_TickOrder ==
    [][TickStep =>
         LET log == lastOp'.log
             names == CallNames(log)
             wasPaused == lastOp'.via = "frame" /\ app.isPaused
         IN  IF wasPaused
             THEN /\ log = <<>>
                  /\ particles' = particles
                  /\ app'.lastSpawnTime = app.lastSpawnTime
             ELSE /\ names \in {<<"advance">>, <<"spawn", "advance">>,
                                <<"advance", "cleanup">>,
                                <<"spawn", "advance", "cleanup">>}
                  /\ names[1] = "spawn" =>
                        /\ (app.now - app.lastSpawnTime) * app.particlesPerSecond
                              >= SecondMs
                        /\ log[1].arg = 1
                        /\ log[1].size = Len(particles)
                  /\ Len(particles') <= Len(particles) + 1
                  /\ \A k \in 1..Len(log) :
                        log[k].call = "advance" =>
                          /\ log[k].size = Len(particles')
                          /\ log[k].size >= Len(particles)]_vars

\* a tick has spawned a particle, advanced the population and cleaned up
C12_FullTick ==
    /\ lastOp.op = "animate"
    /\ CallNames(lastOp.log) = <<"spawn", "advance", "cleanup">>
    /\ Len(particles) = lastOp.log[1].size + 1

\* C14, as claimed: the step a tick passes to advance is strictly positive and
\* at most 2 x 0.02.
C14_StepPositive ==
    (lastOp.op = "animate" /\ ~lastOp.paused) =>
        \A k \in 1..Len(lastOp.log) :
          lastOp.log[k].call = "advance" =>
            /\ lastOp.log[k].arg > 0
            /\ lastOp.log[k].arg <= MaxFrameScale * appDt

\* C14, amended: the step a tick passes to advance is 0.02 x min(deltaTime /
\* 16, 2), where deltaTime is the time since lastFrameTime (0 when
\* lastFrameTime is 0); it is never negative and never exceeds 2 x 0.02, and
\* it is zero exactly when deltaTime is zero.
C14_StepWithinCap ==
    [][(TickStep /\ ~lastOp'.paused) =>
         LET deltaTime == IF app.lastFrameTime = 0 THEN 0
                          ELSE app.now - app.lastFrameTime
         IN  /\ lastOp'.deltaTime = deltaTime
             /\ \A k \in 1..Len(lastOp'.log) :
                   lastOp'.log[k].call = "advance" =>
                     LET step == lastOp'.log[k].arg
                     IN  /\ step * FrameMs =
                              appDt * Min(deltaTime, MaxFrameScale * FrameMs)
                         /\ step >= 0
                         /\ step <= MaxFrameScale * appDt
                         /\ (step = 0) = (deltaTime = 0)]_vars

\* the tick of a resume after a pause longer than two frame lengths has
\* advanced a particle by the capped step
C14_CappedAfterPause ==
    /\ lastOp.op = "animate"
    /\ lastOp.via = "resume"
    /\ lastOp.deltaTime > MaxFrameScale * FrameMs
    /\ Len(particles) > 0
    /\ \E k \in 1..Len(lastOp.log) :
         /\ lastOp.log[k].call = "advance"
         /\ lastOp.log[k].arg = MaxFrameScale * appDt

\* C15, as claimed: under any interleaving of pause and resume clicks and
\* animation-frame callbacks at most one animation-frame callback is
\* registered and not yet run.
C15_OneCallbackPending == app.pending + app.firing <= 1

====
